---- MODULE Spec2Model ----
(***************************************************************************)
(* nano-computed: reactive cells, computed cells and the global Dep marker *)
(* of src/src/index.js, modelled as a call-stack machine.  One JavaScript  *)
(* call is one frame of `stack`; property accesses run the getters and     *)
(* setters that defineReactive / defineComputed install.                   *)
(***************************************************************************)
EXTENDS Integers, Sequences, FiniteSets, TLC

\* ------------------------------------------------------------------------
\* Bounds
\* ------------------------------------------------------------------------

\* once the run has left the demo driver's script, no further top-level
\* statement is issued when the console holds this many lines
MaxOut == 2

\* ------------------------------------------------------------------------
\* Values
\* ------------------------------------------------------------------------

\* the keys defined on the owner object
Reactive == {"todos", "notes"}
Computed == {"doneCount", "total"}

\* `null`: the default of defineReactive's val and the empty Dep
Null == [t |-> "null", a |-> <<>>]
NoDep == "null"

\* no assignment yet
Never == [t |-> "never", a |-> <<>>]

Todo(text, done) == [text |-> text, done |-> done]
Arr(items) == [t |-> "array", a |-> items]

\* the four arrays the demo driver assigns to data.todos
Todos0 == Arr(<<Todo("123", FALSE), Todo("456", FALSE), Todo("789", FALSE)>>)
Todos1 == Arr(<<Todo("123", TRUE), Todo("456", FALSE), Todo("789", FALSE)>>)
Todos2 == Arr(<<Todo("123", TRUE), Todo("456", TRUE), Todo("789", FALSE)>>)
Todos3 == Arr(<<Todo("123", TRUE), Todo("456", TRUE), Todo("789", TRUE)>>)

DemoVals == {Todos0, Todos1, Todos2, Todos3}
\* a not-done-first array, so that counting differs from finding a prefix
Mixed == Arr(<<Todo("a", FALSE), Todo("b", TRUE)>>)
ClientVals == {Todos0, Mixed}

\* todos.filter(todo => todo.done).length
CountAll(items) == Len(items)

RECURSIVE CountDone(_)
CountDone(items) ==
  IF items = <<>> THEN 0
  ELSE (IF Head(items).done THEN 1 ELSE 0) + CountDone(Tail(items))

\* ------------------------------------------------------------------------
\* Programs: the computeFn and updateCallback arguments of defineComputed
\* ------------------------------------------------------------------------

\* A computeFn reads the cells of `reads` in order and adds up, for a
\* reactive cell, the number of done entries of its array and, for a
\* computed cell, the number it returns.  strict: the cell's value is used
\* as an array directly (data.todos.filter), so null throws a TypeError;
\* otherwise null counts as no entries.  cond: the reads after the first
\* happen only when the first one counted something.
Fn(reads, strict, cond) == [reads |-> reads, strict |-> strict, cond |-> cond]

\* An updateCallback reads the computed cells of `reads` in order; when log
\* is set it prints 'new done count is ' + the last of them.
Cb(reads, log) == [reads |-> reads, log |-> log]
NoopCb == Cb(<<>>, FALSE)

LeafFns ==
  { Fn(<<"todos">>, TRUE, FALSE),
    Fn(<<"todos", "todos">>, FALSE, FALSE),
    Fn(<<"notes", "todos">>, FALSE, TRUE) }

TopFns ==
  { Fn(<<"todos">>, FALSE, FALSE),
    Fn(<<"doneCount", "todos">>, FALSE, FALSE),
    Fn(<<"notes", "todos">>, TRUE, FALSE) }

LeafCbs == { NoopCb, Cb(<<"total">>, FALSE) }

\* the demo: data.todos, data.doneCount and the logging callback
DemoCfg ==
  [ reactive |-> {"todos"},
    computed |-> {"doneCount"},
    init     |-> [r \in Reactive |-> Null],
    vals     |-> DemoVals,
    fn       |-> [c \in Computed |-> Fn(<<"todos">>, TRUE, FALSE)],
    cb       |-> [c \in Computed |-> Cb(<<"doneCount">>, TRUE)],
    prints   |-> TRUE ]

\* a client's object: todos defined with initial value i1, notes with none
ClientCfg(leaf, top, lcb, i1) ==
  [ reactive |-> Reactive,
    computed |-> Computed,
    init     |-> [r \in Reactive |-> IF r = "todos" THEN i1 ELSE Null],
    vals     |-> ClientVals,
    fn       |-> [c \in Computed |-> IF c = "doneCount" THEN leaf ELSE top],
    cb       |-> [c \in Computed |-> IF c = "doneCount" THEN lcb ELSE NoopCb],
    prints   |-> FALSE ]

Configs ==
  {DemoCfg} \cup
  { ClientCfg(leaf, top, lcb, i1) :
      leaf \in LeafFns, top \in TopFns, lcb \in LeafCbs,
      i1 \in {Null, Todos0} }

\* the statements of the demo driver, in order
DemoScript ==
  << [kind |-> "rset",  cell |-> "todos",     arg |-> Todos0],
     [kind |-> "print", cell |-> "doneCount", arg |-> Null],
     [kind |-> "rset",  cell |-> "todos",     arg |-> Todos1],
     [kind |-> "rset",  cell |-> "todos",     arg |-> Todos2],
     [kind |-> "rset",  cell |-> "todos",     arg |-> Todos3] >>

\* ------------------------------------------------------------------------
\* State
\* ------------------------------------------------------------------------

VARIABLES
  cfg,       \* what defineReactive / defineComputed were called with
  val,       \* val[r]: the closure variable val of reactive cell r
  deps,      \* deps[r]: the closure array deps of reactive cell r
  Dep,       \* the global marker: NoDep or the computed cell whose
             \* onDependencyUpdated it holds
  stack,     \* the JavaScript call stack, innermost call last
  console,   \* the lines written by console.log
  op,        \* the top-level statement being run, or the last one run
  fired,     \* the updateCallback calls made by that statement
  derivRead, \* derivRead[c]: the reactive cells c's computeFn has read when
             \* called from c's getter
  firstRead, \* the computed cells in the order their getters first ran
  failed,    \* some computeFn has thrown
  written,   \* written[r]: the value of the last assignment to r, Never
             \* before the first
  script     \* how many statements of the demo driver have run, in order
             \* and with nothing in between; -1 once the run differs

vars == <<cfg, val, deps, Dep, stack, console, op, fired, derivRead,
          firstRead, failed, written, script>>

\* frames: k is the function, c the cell it belongs to, pc its position and
\* acc the value it holds
Frame(k, c, pc, acc) == [k |-> k, c |-> c, pc |-> pc, acc |-> acc]

Top == stack[Len(stack)]
Pop(s) == SubSeq(s, 1, Len(s) - 1)
Idle == stack = <<>>

NoOp ==
  [ kind |-> "none", cell |-> "none", arg |-> Null, status |-> "returned",
    result |-> 0, same |-> FALSE, snap |-> <<>>, readers |-> {},
    added |-> FALSE, misrouted |-> FALSE, lost |-> FALSE, updAdded |-> FALSE,
    gets |-> 0, upds |-> 0, fns |-> 0, prev |-> "none" ]

\* the bookkeeping of a newly issued top-level statement: snap is the deps
\* array a write starts from, readers the computed cells whose computeFn had
\* read the written cell, same whether a write assigns the value the cell
\* already holds, added whether a
\* top-level read pushed onto deps, misrouted whether a read made by a
\* computeFn that a getter called pushed another cell's subscriber, lost
\* whether such a read found Dep empty, updAdded whether a read made by a
\* computeFn that onDependencyUpdated called pushed onto deps,
\* gets, upds and fns the calls of getters, of onDependencyUpdated and of
\* computeFn so far, prev the statement before
NewOp(kind, cell, arg) ==
  [ kind |-> kind, cell |-> cell, arg |-> arg, status |-> "running",
    result |-> 0, same |-> FALSE, snap |-> <<>>, readers |-> {},
    added |-> FALSE, misrouted |-> FALSE, lost |-> FALSE, updAdded |-> FALSE,
    gets |-> 0, upds |-> 0, fns |-> 0, prev |-> op.kind ]

Count(frames, k) == Cardinality({i \in DOMAIN frames : frames[i].k = k})

\* op, after the calls that pushed `frames`
Called(o, frames) ==
  [o EXCEPT !.gets = @ + Count(frames, "get"),
            !.upds = @ + Count(frames, "upd"),
            !.fns  = @ + Count(frames, "fn")]

NextScript(kind, cell, arg) ==
  IF /\ cfg = DemoCfg
     /\ script >= 0
     /\ script < Len(DemoScript)
     /\ DemoScript[script + 1] = [kind |-> kind, cell |-> cell, arg |-> arg]
  THEN script + 1
  ELSE -1

InitEager ==
  /\ cfg \in Configs
  /\ val = cfg.init
  /\ deps = [r \in Reactive |-> <<"doneCount">>]
  /\ Dep = NoDep
  /\ stack = <<>>
  /\ console = <<>>
  /\ op = NoOp
  /\ fired = <<>>
  /\ derivRead = [c \in Computed |-> {}]
  /\ firstRead = <<>>
  /\ failed = FALSE
  /\ written = [r \in Reactive |-> Never]
  /\ script = IF cfg = DemoCfg THEN 0 ELSE -1

\* the state after the defineReactive and defineComputed calls
Init ==
  /\ cfg \in Configs
  /\ val = cfg.init
  /\ deps = [r \in Reactive |-> <<>>]
  /\ Dep = NoDep
  /\ stack = <<>>
  /\ console = <<>>
  /\ op = NoOp
  /\ fired = <<>>
  /\ derivRead = [c \in Computed |-> {}]
  /\ firstRead = <<>>
  /\ failed = FALSE
  /\ written = [r \in Reactive |-> Never]
  /\ script = IF cfg = DemoCfg THEN 0 ELSE -1

\* ------------------------------------------------------------------------
\* defineReactive: get and set
\* ------------------------------------------------------------------------

InDeps(d, dep) == \E i \in DOMAIN d : d[i] = dep

CollectTwice(d, dep) == IF dep # NoDep THEN Append(d, dep) ELSE d

CollectFront(d, dep) ==
  IF dep # NoDep /\ ~InDeps(d, dep) THEN <<dep>> \o d ELSE d

\* get: if (Dep && !deps.some(dep => Dep === dep)) deps.push(Dep)
Collect(d, dep) ==
  IF dep # NoDep /\ ~InDeps(d, dep) THEN Append(d, dep) ELSE d

StoredOld(old, new) == old

\* set: val = newValue
Stored(old, new) == new

ForEachCountIfChanged(d, old, new) == IF old = new THEN 0 ELSE Len(d)

\* set: deps.forEach runs whatever the old and the new value are; it is
\* called on an array of Len(d) elements
ForEachCount(d, old, new) == Len(d)

ForEachEndLive(d, n) == Len(d)

\* forEach visits the elements the array had when it was called: the ones
\* pushed since are not visited
ForEachEnd(d, n) == n

SubscriberReversed(d, i, n) == d[n + 1 - i]

\* set: deps.forEach(changeFn => changeFn()): the i-th of the n elements
\* the array had when forEach was called
Subscriber(d, i, n) == d[i]

\* ------------------------------------------------------------------------
\* defineComputed: get, set and onDependencyUpdated
\* ------------------------------------------------------------------------

GetterFramesCached(c) == << Frame("get", c, 1, 0) >>

GetterFramesNotify(c) ==
  << Frame("get", c, 0, 0), Frame("upd", c, 0, 0), Frame("fn", c, 1, 0) >>

\* get: Dep = onDependencyUpdated; const value = computeFn()
GetterFrames(c) == << Frame("get", c, 0, 0), Frame("fn", c, 1, 0) >>

DepAfterGetStale(d) == d

\* get: Dep = null, after computeFn has returned
DepAfterGet(d) == NoDep

\* onDependencyUpdated: const value = computeFn()
UpdateFrames(c) == << Frame("upd", c, 0, 0), Frame("fn", c, 1, 0) >>

AdvanceRetry(f, pc, n) ==
  IF f.cond /\ pc = 1 /\ n = 0 THEN pc ELSE pc + 1

\* the position of a computeFn after the read at pc yielded n
Advance(f, pc, n) ==
  IF f.cond /\ pc = 1 /\ n = 0 THEN Len(f.reads) + 1 ELSE pc + 1

\* the caller's frame after the call it made returned v
Resume(f, v) ==
  CASE f.k = "fn"  -> [f EXCEPT !.acc = @ + v,
                                !.pc = Advance(cfg.fn[f.c], f.pc, v)]
    [] f.k = "get" -> [f EXCEPT !.acc = v, !.pc = 1]
    [] f.k = "upd" -> IF f.pc = 0 THEN [f EXCEPT !.acc = v, !.pc = 1]
                                  ELSE [f EXCEPT !.pc = 3]
    [] f.k = "cb"  -> [f EXCEPT !.acc = v, !.pc = @ + 1]
    [] OTHER       -> f

\* the stack after the innermost call returned v to its caller
Return(s, v) ==
  LET rest == Pop(s) IN
  IF rest = <<>> THEN rest
  ELSE [rest EXCEPT ![Len(rest)] = Resume(rest[Len(rest)], v)]

\* the computed cells whose getters have run, c now among them
Noted(seq, c) == IF InDeps(seq, c) THEN seq ELSE Append(seq, c)

\* ------------------------------------------------------------------------
\* Calls and returns
\* ------------------------------------------------------------------------

\* the innermost call returns v; a top-level statement that has nothing left
\* to run is over, and console.log(data.c) prints what it read
ReturnTo(v, con) ==
  LET s == Return(stack, v) IN
  /\ stack' = s
  /\ op' = IF s = <<>> THEN [op EXCEPT !.status = "returned", !.result = v]
                       ELSE op
  /\ console' = IF s = <<>> /\ op.kind = "print"
                THEN Append(con, ToString(v)) ELSE con

\* a call of c's getter from the innermost frame (or from the top level)
EnterGetter(c, o) ==
  /\ Dep' = c
  /\ stack' = stack \o GetterFrames(c)
  /\ op' = Called(o, GetterFrames(c))
  /\ firstRead' = Noted(firstRead, c)

\* ------------------------------------------------------------------------
\* Top-level statements
\* ------------------------------------------------------------------------

\* the caller issues a statement: the demo driver's own run is finite, any
\* other run is cut off by the length of the console
MayIssue == Idle /\ (script >= 0 \/ Len(console) < MaxOut)

\* data.r = v: val = newValue, then deps.forEach starts
WriteReactive(r, v) ==
  /\ MayIssue
  /\ r \in cfg.reactive /\ v \in cfg.vals
  /\ val' = [val EXCEPT ![r] = Stored(val[r], v)]
  /\ written' = [written EXCEPT ![r] = v]
  /\ stack' = << Frame("set", r, 1, ForEachCount(deps[r], val[r], v)) >>
  /\ op' = [NewOp("rset", r, v) EXCEPT
              !.same = (v = val[r]),
              !.snap = deps[r],
              !.readers = {c \in Computed : r \in derivRead[c]}]
  /\ fired' = <<>>
  /\ script' = NextScript("rset", r, v)
  /\ UNCHANGED <<cfg, deps, Dep, console, derivRead, firstRead, failed>>

\* data.r, read outside any function
ReadReactive(r) ==
  /\ MayIssue
  /\ r \in cfg.reactive
  /\ deps' = [deps EXCEPT ![r] = Collect(deps[r], Dep)]
  /\ op' = [NewOp("rget", r, Null) EXCEPT
              !.status = "returned",
              !.result = val[r],
              !.added = (Collect(deps[r], Dep) # deps[r])]
  /\ fired' = <<>>
  /\ script' = NextScript("rget", r, Null)
  /\ UNCHANGED <<cfg, written, val, Dep, stack, console, derivRead, firstRead, failed>>

\* data.c, read outside any function
ReadComputed(c) ==
  /\ MayIssue
  /\ c \in cfg.computed
  /\ EnterGetter(c, NewOp("cget", c, Null))
  /\ fired' = <<>>
  /\ script' = NextScript("cget", c, Null)
  /\ UNCHANGED <<cfg, written, val, deps, console, derivRead, failed>>

\* console.log(data.c)
PrintComputed(c) ==
  /\ MayIssue
  /\ cfg.prints
  /\ c \in cfg.computed
  /\ EnterGetter(c, NewOp("print", c, Null))
  /\ fired' = <<>>
  /\ script' = NextScript("print", c, Null)
  /\ UNCHANGED <<cfg, written, val, deps, console, derivRead, failed>>

ComputedSetNotifies(c, v) == UpdateFrames(c)

\* set () {}: the calls the setter of a computed cell makes
ComputedSet(c, v) == <<>>

\* data.c = v
WriteComputed(c, v) ==
  /\ MayIssue
  /\ c \in cfg.computed /\ v \in cfg.vals
  /\ stack' = ComputedSet(c, v)
  /\ op' = [Called(NewOp("cset", c, v), ComputedSet(c, v)) EXCEPT
              !.status = IF ComputedSet(c, v) = <<>> THEN "returned"
                         ELSE "running"]
  /\ fired' = <<>>
  /\ script' = NextScript("cset", c, v)
  /\ UNCHANGED <<cfg, written, val, deps, Dep, console, derivRead, firstRead, failed>>

\* ------------------------------------------------------------------------
\* Steps of the running statement
\* ------------------------------------------------------------------------

Running(k) == ~Idle /\ Top.k = k

\* the cell a computeFn or updateCallback reads next
NextRead(prog) == prog.reads[Top.pc]

\* op, after the innermost computeFn read reactive cell r
ReadNoted(o, r) ==
  LET byGetter == stack[Len(stack) - 1].k = "get" IN
  [o EXCEPT
     !.misrouted = @ \/ (byGetter /\ Dep \notin {NoDep, Top.c}),
     !.lost = @ \/ (byGetter /\ Dep = NoDep),
     !.updAdded = @ \/ (~byGetter /\ Collect(deps[r], Dep) # deps[r])]

\* computeFn reads a reactive cell: the cell's get runs, and the value is
\* counted
FnReadReactive ==
  /\ Running("fn")
  /\ Top.pc <= Len(cfg.fn[Top.c].reads)
  /\ LET f == cfg.fn[Top.c]
         r == NextRead(f)
         n == IF val[r] = Null THEN 0 ELSE CountDone(val[r].a)
     IN /\ r \in Reactive
        /\ ~(f.strict /\ val[r] = Null)
        /\ deps' = [deps EXCEPT ![r] = Collect(deps[r], Dep)]
        /\ derivRead' = IF stack[Len(stack) - 1].k = "get"
                        THEN [derivRead EXCEPT ![Top.c] = @ \cup {r}]
                        ELSE derivRead
        /\ stack' = [stack EXCEPT ![Len(stack)] =
                       [Top EXCEPT !.acc = @ + n,
                                   !.pc = Advance(f, Top.pc, n)]]
        /\ op' = ReadNoted(op, r)
  /\ UNCHANGED <<cfg, written, val, Dep, console, fired, firstRead, failed,
                 script>>

\* computeFn reads a reactive cell that holds null and calls .filter on it:
\* the TypeError unwinds every frame, none of which catches it
FnThrow ==
  /\ Running("fn")
  /\ Top.pc <= Len(cfg.fn[Top.c].reads)
  /\ LET f == cfg.fn[Top.c]
         r == NextRead(f)
     IN /\ r \in Reactive
        /\ f.strict /\ val[r] = Null
        /\ deps' = [deps EXCEPT ![r] = Collect(deps[r], Dep)]
        /\ derivRead' = IF stack[Len(stack) - 1].k = "get"
                        THEN [derivRead EXCEPT ![Top.c] = @ \cup {r}]
                        ELSE derivRead
        /\ op' = [ReadNoted(op, r) EXCEPT !.status = "threw"]
  /\ stack' = <<>>
  /\ failed' = TRUE
  /\ UNCHANGED <<cfg, written, val, Dep, console, fired, firstRead, script>>

\* computeFn reads a computed cell
FnReadComputed ==
  /\ Running("fn")
  /\ Top.pc <= Len(cfg.fn[Top.c].reads)
  /\ NextRead(cfg.fn[Top.c]) \in Computed
  /\ EnterGetter(NextRead(cfg.fn[Top.c]), op)
  /\ UNCHANGED <<cfg, written, val, deps, console, fired, derivRead, failed, script>>

\* computeFn returns its sum
FnReturn ==
  /\ Running("fn")
  /\ Top.pc > Len(cfg.fn[Top.c].reads)
  /\ ReturnTo(Top.acc, console)
  /\ UNCHANGED <<cfg, written, val, deps, Dep, fired, derivRead, firstRead, failed,
                 script>>

\* the getter of a computed cell, after computeFn: Dep = null; return value
GetReturn ==
  /\ Running("get")
  /\ Top.pc = 1
  /\ Dep' = DepAfterGet(Dep)
  /\ ReturnTo(Top.acc, console)
  /\ UNCHANGED <<cfg, written, val, deps, fired, derivRead, firstRead, failed, script>>

\* forEach calls the next subscriber: onDependencyUpdated calls computeFn
SetCall ==
  /\ Running("set")
  /\ Top.pc <= ForEachEnd(deps[Top.c], Top.acc)
  /\ LET frames == UpdateFrames(Subscriber(deps[Top.c], Top.pc, Top.acc))
     IN /\ stack' = [stack EXCEPT ![Len(stack)] = [Top EXCEPT !.pc = @ + 1]]
                    \o frames
        /\ op' = Called(op, frames)
  /\ UNCHANGED <<cfg, written, val, deps, Dep, console, fired, derivRead, firstRead,
                 failed, script>>

\* forEach is through: the setter returns
SetReturn ==
  /\ Running("set")
  /\ Top.pc > ForEachEnd(deps[Top.c], Top.acc)
  /\ ReturnTo(0, console)
  /\ UNCHANGED <<cfg, written, val, deps, Dep, fired, derivRead, firstRead, failed,
                 script>>

\* onDependencyUpdated: updateCallback(value)
UpdCall ==
  /\ Running("upd")
  /\ Top.pc = 1
  /\ fired' = Append(fired, [c |-> Top.c, v |-> Top.acc])
  /\ stack' = [stack EXCEPT ![Len(stack)] = [Top EXCEPT !.pc = 2]]
              \o << Frame("cb", Top.c, 1, Top.acc) >>
  /\ UNCHANGED <<cfg, written, val, deps, Dep, console, op, derivRead, firstRead,
                 failed, script>>

\* onDependencyUpdated returns
UpdReturn ==
  /\ Running("upd")
  /\ Top.pc = 3
  /\ ReturnTo(0, console)
  /\ UNCHANGED <<cfg, written, val, deps, Dep, fired, derivRead, firstRead, failed,
                 script>>

\* updateCallback reads a computed cell
CbRead ==
  /\ Running("cb")
  /\ Top.pc <= Len(cfg.cb[Top.c].reads)
  /\ EnterGetter(NextRead(cfg.cb[Top.c]), op)
  /\ UNCHANGED <<cfg, written, val, deps, console, fired, derivRead, failed, script>>

\* updateCallback prints, if it is the logging one, and returns
CbReturn ==
  /\ Running("cb")
  /\ Top.pc > Len(cfg.cb[Top.c].reads)
  /\ ReturnTo(0, IF cfg.cb[Top.c].log
                 THEN Append(console, "new done count is " \o ToString(Top.acc))
                 ELSE console)
  /\ UNCHANGED <<cfg, written, val, deps, Dep, fired, derivRead, firstRead, failed,
                 script>>

Next ==
  \/ \E r \in Reactive, v \in DemoVals \cup ClientVals : WriteReactive(r, v)
  \/ \E r \in Reactive : ReadReactive(r)
  \/ \E c \in Computed : ReadComputed(c)
  \/ \E c \in Computed : PrintComputed(c)
  \/ \E c \in Computed, v \in DemoVals \cup ClientVals : WriteComputed(c, v)
  \/ FnReadReactive
  \/ FnThrow
  \/ FnReadComputed
  \/ FnReturn
  \/ GetReturn
  \/ SetCall
  \/ SetReturn
  \/ UpdCall
  \/ UpdReturn
  \/ CbRead
  \/ CbReturn

Spec == Init /\ [][Next]_vars

\* the steps of the statement that is running
Step ==
  \/ FnReadReactive
  \/ FnThrow
  \/ FnReadComputed
  \/ FnReturn
  \/ GetReturn
  \/ SetCall
  \/ SetReturn
  \/ UpdCall
  \/ UpdReturn
  \/ CbRead
  \/ CbReturn

\* the objects whose updateCallback reads a computed cell: the demo's, and
\* the client's with doneCount's callback reading total
InitLive ==
  /\ Init
  /\ cfg.cb["doneCount"] # NoopCb
  /\ cfg.init["todos"] = Null

\* execution is synchronous and single-threaded: a statement that has begun
\* keeps running; nothing obliges the caller to issue another statement
SpecLive == InitLive /\ [][Next]_vars /\ WF_vars(Step)

\* ------------------------------------------------------------------------
\* What computeFn denotes
\* ------------------------------------------------------------------------

RECURSIVE Eval(_, _), SumReads(_, _, _)

\* the number one read of cell x contributes, the cells holding v
ReadValue(x, v) ==
  IF x \in Reactive
  THEN (IF v[x] = Null THEN 0 ELSE CountDone(v[x].a))
  ELSE Eval(x, v)

SumReads(c, v, i) ==
  IF i > Len(cfg.fn[c].reads) THEN 0
  ELSE ReadValue(cfg.fn[c].reads[i], v) + SumReads(c, v, i + 1)

\* what c's computeFn returns, the cells holding v, when it returns
Eval(c, v) ==
  IF cfg.fn[c].cond /\ ReadValue(cfg.fn[c].reads[1], v) = 0
  THEN 0
  ELSE SumReads(c, v, 1)

FiredCells == [i \in DOMAIN fired |-> fired[i].c]

Position(seq, x) == CHOOSE i \in DOMAIN seq : seq[i] = x

Occurrences(seq, x) == Cardinality({i \in DOMAIN seq : seq[i] = x})

WriteReturned == Idle /\ op.kind = "rset" /\ op.status = "returned"
ReadReturned == Idle /\ op.kind \in {"cget", "print"} /\ op.status = "returned"
ReadThrew == Idle /\ op.kind \in {"cget", "print"} /\ op.status = "threw"

\* ------------------------------------------------------------------------
\* Claims
\* ------------------------------------------------------------------------

\* C1: once computed cell c has been read and its computeFn read reactive
\* cell r during that read, a later top-level write to r calls c's
\* updateCallback, with computeFn's value for the cells as written.
C1_RecomputeOnWrite ==
  WriteReturned =>
    \A c \in op.readers :
      \E i \in DOMAIN fired : fired[i] = [c |-> c, v |-> Eval(c, val)]

\* C2 as claimed: a write calls every subscriber of the cell once, in the
\* order of registration, and the updateCallbacks of two computed cells run
\* in the order in which the computed cells were first read (stated here
\* for the runs in which no computeFn has thrown).
C2_OrderOfFirstRead ==
  (WriteReturned /\ ~failed) =>
    /\ FiredCells = op.snap
    /\ \A i, j \in DOMAIN fired :
         i < j => Position(firstRead, fired[i].c) < Position(firstRead, fired[j].c)

\* C2 as amended: a write that returns has called every subscriber the
\* cell's deps held when the write began exactly once, in the order of deps,
\* which is the order in which the subscribers were first registered on that
\* cell; each has finished before the write returns.
C2_OrderOfRegistration ==
  WriteReturned =>
    /\ FiredCells = op.snap
    /\ op.upds = Len(op.snap)
    /\ op.snap = SubSeq(deps[op.cell], 1, Len(op.snap))

\* a write of a cell on which both computed cells are registered
C2_Witness ==
  /\ WriteReturned
  /\ Len(fired) = 2
  /\ fired[1].c # fired[2].c

\* C3: for a computed cell c whose computeFn reads reactive cells only, c
\* is exactly once in the deps of every reactive cell that computeFn has
\* read from c's getter, however often it read the cell and however often
\* c was read.
C3_DependencyCapture ==
  \A c \in cfg.computed :
    (\A i \in DOMAIN cfg.fn[c].reads : cfg.fn[c].reads[i] \in Reactive) =>
      \A r \in derivRead[c] : Occurrences(deps[r], c) = 1

\* doneCount, whose computeFn reads todos twice, has been read twice
C3_Witness ==
  /\ ReadReturned
  /\ op.cell = "doneCount"
  /\ op.prev = "cget"
  /\ firstRead = <<"doneCount">>
  /\ cfg.fn["doneCount"].reads = <<"todos", "todos">>
  /\ deps["todos"] = <<"doneCount">>

\* C4: after a read of a computed cell whose computeFn threw, Dep is empty,
\* and a read of a reactive cell outside any computeFn adds no subscriber.
C4_MarkerEmptyAfterFailure ==
  /\ ReadThrew => Dep = NoDep
  /\ (Idle /\ op.kind = "rget") => ~op.added

\* C5: as long as no computeFn has thrown, Dep is non-empty only while the
\* getter of the computed cell it names is running and has not yet cleared
\* it; it is empty whenever no getter is running, and so after every read
\* of a computed cell, nested reads or not.
C5_MarkerInvariant ==
  ~failed =>
    /\ Dep # NoDep =>
         \E i \in DOMAIN stack : stack[i].k = "get" /\ stack[i].c = Dep
    /\ (\A i \in DOMAIN stack : stack[i].k # "get") => Dep = NoDep
    /\ Idle => Dep = NoDep

\* a read of total, whose computeFn read doneCount, has returned
C5_Witness ==
  /\ ReadReturned
  /\ ~failed
  /\ op.cell = "total"
  /\ op.gets = 2
  /\ Dep = NoDep

\* C6: every call of a computed cell's getter calls computeFn exactly once,
\* so the calls of computeFn are those of the getters and of
\* onDependencyUpdated, and a read returns what computeFn denotes, also
\* when the read before it was of the same kind with no write in between.
C6_NoCaching ==
  /\ op.fns = op.gets + op.upds
  /\ ReadReturned => op.result = Eval(op.cell, val)

\* the second of two consecutive reads has called computeFn and returned a
\* count that is not zero
C6_Witness ==
  /\ ReadReturned
  /\ op.prev = "cget"
  /\ op.gets = 1
  /\ op.fns = 1
  /\ op.result > 0

\* C7: no subscriber is twice in any deps, so a deps array holds at most as
\* many entries as computed cells are defined.
C7_SubscriberUniqueness ==
  \A r \in Reactive :
    /\ \A i, j \in DOMAIN deps[r] : deps[r][i] = deps[r][j] => i = j
    /\ Len(deps[r]) <= Cardinality(cfg.computed)

\* both computed cells are on todos, one of them after reading it twice
C7_Witness ==
  /\ Len(deps["todos"]) = 2
  /\ cfg.fn["doneCount"].reads = <<"todos", "todos">>
  /\ Idle

\* C8: an assignment to a computed cell calls no computeFn, no getter and
\* no updateCallback and leaves val, deps, Dep and the console as they
\* were; a read of the computed cell that follows returns what computeFn
\* denotes.
C8_ComputedWriteIgnored ==
  /\ [][op'.kind = "cset" =>
          /\ UNCHANGED <<val, deps, Dep, console>>
          /\ stack' = <<>>
          /\ fired' = <<>>
          /\ op'.status = "returned"
          /\ op'.fns = 0 /\ op'.upds = 0 /\ op'.gets = 0]_vars
  /\ [](ReadReturned /\ op.prev = "cset" => op.result = Eval(op.cell, val))

\* a computed cell that has subscribed is assigned to, then read
C8_Witness ==
  /\ ReadReturned
  /\ op.prev = "cset"
  /\ op.result > 0
  /\ deps["todos"] # <<>>

\* what the console holds after k statements of the demo driver
DemoOutput(k) ==
  SubSeq(<< "0", "new done count is 1", "new done count is 2",
            "new done count is 3" >>, 1, IF k < 2 THEN 0 ELSE k - 1)

\* C9: the demo driver's statements print 0, then 'new done count is 1',
\* 2 and 3: the first write and the read call no updateCallback, each later
\* write calls exactly one.
C9_DemoTrace ==
  (cfg = DemoCfg /\ script >= 0 /\ Idle) =>
    /\ console = DemoOutput(script)
    /\ Len(fired) = (IF script >= 3 THEN 1 ELSE 0)

\* the demo driver has run to its end
C9_Witness ==
  /\ cfg = DemoCfg
  /\ script = Len(DemoScript)
  /\ Idle
  /\ Len(console) = 4

\* C10: no step removes an entry of a deps array or reorders the entries:
\* the array stays as it is or gets one entry appended.
C10_DepsNeverShrink ==
  [][\A r \in Reactive :
       \/ deps'[r] = deps[r]
       \/ \E c \in Computed : deps'[r] = Append(deps[r], c)]_vars

\* a second subscriber has been appended, and a write has run both
C10_Witness ==
  /\ WriteReturned
  /\ Len(deps[op.cell]) = 2
  /\ Len(fired) = 2

\* the value cell r is to hold: the one last assigned, or the initial one
Current(r) == IF written[r] = Never THEN cfg.init[r] ELSE written[r]

\* C11: a read of a reactive cell returns the value of the most recent
\* assignment, or the initial value (null when none was given) before the
\* first; it never throws, and no read changes the stored value, which is
\* that value in every state.
C11_ReactiveReadReturnsCurrent ==
  /\ \A r \in Reactive : val[r] = Current(r)
  /\ (op.kind = "rget") =>
       /\ Idle
       /\ op.status = "returned"
       /\ op.result = Current(op.cell)

\* a cell defined with an initial array and assigned another one is read
C11_Witness ==
  /\ op.kind = "rget"
  /\ op.prev = "rset"
  /\ cfg.init[op.cell] = Todos0
  /\ op.result = Mixed

\* a read of total whose computeFn read doneCount has returned
NestedReadReturned == ReadReturned /\ op.cell = "total" /\ op.gets = 2

\* C12 as claimed: when the computeFn of total reads doneCount, the nested
\* getter overwrites Dep and does not restore it, and some reactive cell
\* read during the read of total is registered to a subscriber other than
\* that of the computed cell whose computeFn read it.
C12_NestedReadMisroutes ==
  NestedReadReturned => op.misrouted

\* C12 as amended: the nested getter overwrites Dep and leaves it empty, so
\* the reactive cells total's computeFn reads after doneCount find no
\* subscriber to register and total is missing from their deps; no read
\* made by a computeFn that a getter called registers another cell's
\* subscriber.
C12_NestedReadLosesRegistration ==
  /\ ~op.misrouted
  /\ NestedReadReturned =>
       /\ op.lost
       /\ Dep = NoDep
       /\ ~InDeps(deps["todos"], "total")

\* the nested read has returned with todos read under an empty Dep
C12_Witness ==
  /\ NestedReadReturned
  /\ op.lost
  /\ "todos" \in derivRead["total"]
  /\ deps["todos"] = <<"doneCount">>

IsRead == op.kind \in {"rget", "cget", "print"}

\* C13: a top-level read of a computed or of a reactive cell calls no
\* onDependencyUpdated and no updateCallback and leaves every stored value
\* as it was; these run only below the setter of a reactive cell.
C13_ReadsNotifyNothing ==
  /\ IsRead =>
       /\ fired = <<>>
       /\ op.upds = 0
       /\ \A i \in DOMAIN stack : stack[i].k \in {"get", "fn"}
       /\ \A r \in Reactive : val[r] = Current(r)
  /\ (fired # <<>> \/ \E i \in DOMAIN stack : stack[i].k \in {"upd", "cb"}) =>
       /\ op.kind = "rset"
       /\ stack # <<>> => stack[1].k = "set"

\* a subscribed computed cell is read after a write that notified it
C13_Witness ==
  /\ ReadReturned
  /\ op.prev = "rset"
  /\ InDeps(deps["todos"], op.cell)
  /\ op.result > 0
  /\ fired = <<>>

\* C14: every top-level statement runs to completion: a running write or
\* read returns (or throws) to the top level, the computeFns terminating
\* and the updateCallbacks making no assignment.
C14_RunsToCompletion == ~Idle ~> Idle

\* a write has returned after two subscribers, a callback and a nested read
C14_Witness ==
  /\ WriteReturned
  /\ op.upds = 2
  /\ op.gets >= 1
  /\ op.fns >= 3

\* C15: the computeFn that onDependencyUpdated calls during a write runs
\* with Dep empty and pushes nothing onto any deps array, so a cell it reads
\* for the first time then does not notify the computed cell until the
\* computed cell is read again.
C15_NotificationCollectsNothing ==
  /\ ~op.updAdded
  /\ (Len(stack) >= 2 /\ Top.k = "fn" /\ stack[Len(stack) - 1].k = "upd") =>
       Dep = NoDep

\* C16: as long as the getter of a computed cell has not run, its
\* subscriber is in no deps array and is not the marker, and no write calls
\* its updateCallback: every subscriber registered or called belongs to a
\* computed cell that has been read.
C16_DefiningRegistersNothing ==
  /\ \A c \in Computed :
       ~InDeps(firstRead, c) =>
         /\ \A r \in Reactive : ~InDeps(deps[r], c)
         /\ ~InDeps(FiredCells, c)
         /\ Dep # c
  /\ \A r \in Reactive :
       \A i \in DOMAIN deps[r] : InDeps(firstRead, deps[r][i])

\* a write has notified the one computed cell that was read; the other is
\* defined but has not been read
C16_Witness ==
  /\ WriteReturned
  /\ cfg.computed = Computed
  /\ Len(firstRead) = 1
  /\ Len(fired) = 1

\* C17: a write calls only the subscribers that were in the cell's deps
\* when it began; a subscriber pushed onto that deps during the pass (a
\* callback read a computed cell not yet registered there) is not called by
\* this pass and waits in deps for the next write.
C17_PassSkipsNewSubscribers ==
  /\ op.kind = "rset" =>
       /\ Len(fired) <= Len(op.snap)
       /\ \A i \in DOMAIN fired : fired[i].c = op.snap[i]
  /\ WriteReturned =>
       /\ Len(fired) = Len(op.snap)
       /\ \A i \in DOMAIN deps[op.cell] :
            i > Len(op.snap) =>
              /\ ~InDeps(FiredCells, deps[op.cell][i])
              /\ InDeps(firstRead, deps[op.cell][i])

\* doneCount's callback read total during the write, which put total's
\* subscriber on the written cell
C17_Witness ==
  /\ WriteReturned
  /\ op.snap = <<"doneCount">>
  /\ deps[op.cell] = <<"doneCount", "total">>
  /\ FiredCells = <<"doneCount">>

\* C18: a write that assigns the value the cell already holds calls every
\* subscriber all the same: no comparison suppresses the notification.
C18_WritesAlwaysNotify ==
  (WriteReturned /\ op.same) =>
    /\ op.upds = Len(op.snap)
    /\ \A i \in DOMAIN op.snap : InDeps(FiredCells, op.snap[i])

\* the value already stored is assigned again and a subscriber is called
C18_Witness ==
  /\ WriteReturned
  /\ op.same
  /\ val[op.cell] = op.arg
  /\ Len(fired) >= 1

====
